---- MODULE Spec2Model ----
(***************************************************************************)
(* aexClock: the menu host (ContentMenu), the Network pane (NetConnect),   *)
(* the Audio pane (AudioMixer), their background refresh workers and the   *)
(* mutexes that guard the panes, as a state machine.                       *)
(*                                                                         *)
(* Threads: "main" (input loop, event handlers, rendering), one refresh    *)
(* worker per pane once spawned.  The external tools (nmcli, pactl) are    *)
(* the environment: every call to one is a step of its own, and the        *)
(* result is drawn from a small set.                                       *)
(***************************************************************************)
EXTENDS Integers, Sequences, FiniteSets, TLC

VARIABLES
    build,            \* "debug" (overflow checks: arithmetic overflow panics) or "release" (wraps)
    keybinds,         \* CONFIG().keybinds: logical action -> key chord
    status,           \* the process: "running", "panicked" (main thread panicked), "exited" (quit)
    pc,               \* where the main thread is
    start_i,          \* ContentMenu::new: the item whose starter runs next
    ev,               \* the event dispatch_events read
    call,             \* the external command the main thread is waiting for
    selected_button,  \* ContentMenu.selected_button
    nc,               \* the NetConnect behind its mutex
    am,               \* the AudioMixer behind its mutex
    lock,             \* per pane: who holds the mutex
    poisoned,         \* per pane: a thread panicked while holding the mutex
    wpc,              \* per pane: where the refresh worker is
    new_list,         \* per pane: the worker's local new_list
    spawns,           \* per pane: how many times std::thread::spawn ran
    spc,              \* further callers of start_auto_refresh: where each is
    vol_keys,         \* how many volume keys were pressed so far
    net_conn,         \* environment: the ssid the machine is connected to
    sinks,            \* environment: the sink inputs PulseAudio has, with their real volumes
    arg,              \* the arguments of a function or component run on its own (no program running)
    res               \* and what it returned, or the state it is in

vars == <<build, keybinds, status, pc, start_i, ev, call, selected_button, nc, am,
          lock, poisoned, wpc, new_list, spawns, spc, vol_keys, net_conn, sinks, arg, res>>

----------------------------------------------------------------------------
(* Bounds of the model *)

\* the longest password typed into the prompt
MaxPass == 1
\* how many volume keys (content_left / content_right) the user presses in a run
MaxVolKeys == 2
\* how many further threads call start_auto_refresh besides ContentMenu::new
NumCallers == 2
\* the most items a ContentMenu run on its own is built with
MaxItems == 3
\* how many events such a ContentMenu reads
MaxMenuEvents == 3
\* the longest list the selection is moved over on its own
MaxList == 4
\* how many moves of the selection are made over it, up or down
MaxMoves == 5
\* the most lines nmcli prints for one scan of the networks
MaxRaw == 12
\* the widest Audio pane a volume bar is drawn in, in cells
MaxWidth == 24

----------------------------------------------------------------------------
(* Program constants *)

\* handle_key_event passes 5 to add_volume
VolumeStep == 5
\* add_volume compares against 100
VolumeMax == 100
\* move_scrollbar_down: connection_info.len().saturating_sub(15)
ScrollWindow == 15
\* make_info_overlay: height = 15, content_height = height - 3
OverlayHeight == 15
ContentHeight == OverlayHeight - 3
\* make_wifi_list: .take(10)
WifiListCap == 10
\* u8::MAX, the range of parse::<u8>()
U8Max == 255
\* usize::MAX.  TLC's integers are 32 bit wide, so the value a wrapped usize takes
\* is represented by the largest integer TLC has; AddUsize, SubUsize and AsI32
\* below treat it as the all-ones word it stands for.
UsizeMax == 2147483647

Panes == {"net", "audio"}
\* run: vec![make_netconnect_menu_item(), make_audiomixer_menu_item()]
Items == <<"net", "audio">>

Max(a, b) == IF a >= b THEN a ELSE b
Min(a, b) == IF a <= b THEN a ELSE b

----------------------------------------------------------------------------
(* usize arithmetic.  A result is [v |-> value, panic |-> overflow panicked]. *)

\* x + 1 on usize
AddUsize(x, b) ==
    IF x = UsizeMax
    THEN [v |-> 0, panic |-> (b = "debug")]
    ELSE [v |-> x + 1, panic |-> FALSE]

\* x - 1 on usize
SubUsize(x, b) ==
    IF x = 0
    THEN [v |-> UsizeMax, panic |-> (b = "debug")]
    ELSE [v |-> x - 1, panic |-> FALSE]

\* x.saturating_sub(y)
SaturatingSub(x, y) == IF x >= y THEN x - y ELSE 0

\* x as i32: truncation to the low 32 bits, read as signed
AsI32(x) == IF x = UsizeMax THEN -1 ELSE x

----------------------------------------------------------------------------
(* Key events and CONFIG().key_matches *)

Actions == {"nav_up", "nav_down", "content_up", "content_down", "content_left",
            "content_right", "accept", "info", "cancel", "quit"}

\* A chord (key code plus modifiers) is named by the keybind string that denotes
\* it.  CharKeys are the chords whose code is KeyCode::Char(c), whatever their
\* modifiers; CharOf gives c.
CharKeys == {"i", "x", "ctrl+q"}
NamedKeys == {"up", "down", "left", "right", "enter", "esc", "backspace",
              "shift+up", "shift+down"}
Keys == NamedKeys \cup CharKeys
CharOf(k) == IF k = "ctrl+q" THEN "q" ELSE k

\* Two configurations (~/.config/aex/clock.toml): one with a chord of its own for
\* every action, one where the menu and the panes share up and down.
CfgDistinct ==
    [nav_up |-> "shift+up", nav_down |-> "shift+down",
     content_up |-> "up", content_down |-> "down",
     content_left |-> "left", content_right |-> "right",
     accept |-> "enter", info |-> "i", cancel |-> "esc", quit |-> "ctrl+q"]
CfgShared ==
    [CfgDistinct EXCEPT !.nav_up = "up", !.nav_down = "down"]
Configs == {CfgDistinct, CfgShared}

NoEvent == [type |-> "None", kind |-> "None", code |-> "None"]
KeyPress(k) == [type |-> "Key", kind |-> "Press", code |-> k]
KeyRelease(k) == [type |-> "Key", kind |-> "Release", code |-> k]
Resize == [type |-> "Resize", kind |-> "None", code |-> "None"]

\* Config::key_matches: the event's code and modifiers equal the chord's
key_matches(e, chord) == e.code = chord

----------------------------------------------------------------------------
(* NetConnect *)

\* NetConnect::new
NetConnectNew ==
    [selected_ssid |-> 0, wifi_list |-> <<>>, started_refresh |-> FALSE,
     connected_ssid |-> "", show_prompt |-> FALSE, prompt_ssid |-> "",
     prompt_pass |-> <<>>, show_info |-> FALSE, connection_info |-> <<>>,
     scroll_offset |-> 0]

\* What a handler returns to the model: the new state, and how it ended:
\* "done", "panic", or the external command it now waits for.
Done(s) == [st |-> s, out |-> "done"]
Panic(s) == [st |-> s, out |-> "panic"]

\* A faulty variant, for comparison: the index wraps one step late
NetMoveSelectedDownLate(s, b) ==
    LET inc == AddUsize(s.selected_ssid, b)
    IN IF inc.panic THEN Panic(s)
       ELSE Done([s EXCEPT !.selected_ssid =
                    IF inc.v > Len(s.wifi_list) THEN 0 ELSE inc.v])

NetMoveSelectedDown(s, b) ==
    LET inc == AddUsize(s.selected_ssid, b)
    IN IF inc.panic THEN Panic(s)
       ELSE Done([s EXCEPT !.selected_ssid =
                    IF inc.v >= Len(s.wifi_list) THEN 0 ELSE inc.v])

NetMoveSelectedUp(s, b) ==
    LET number == AsI32(s.selected_ssid) - 1
        sat == SaturatingSub(s.selected_ssid, 1)
        last == SubUsize(Len(s.wifi_list), b)
    IN IF number < 0
       THEN IF last.panic THEN Panic(s)
            ELSE Done([s EXCEPT !.selected_ssid = last.v])
       ELSE Done([s EXCEPT !.selected_ssid = sat])

NetMoveScrollbarUp(s) ==
    IF s.scroll_offset > 0
    THEN [s EXCEPT !.scroll_offset = s.scroll_offset - 1]
    ELSE s

\* A faulty variant, for comparison: the overlay scrolls until its last line shows
NetMoveScrollbarDownToEnd(s) ==
    LET max_offset == SaturatingSub(Len(s.connection_info), ContentHeight)
    IN IF s.scroll_offset < max_offset
       THEN [s EXCEPT !.scroll_offset = s.scroll_offset + 1]
       ELSE s

NetMoveScrollbarDown(s) ==
    LET max_offset == SaturatingSub(Len(s.connection_info), ScrollWindow)
    IN IF s.scroll_offset < max_offset
       THEN [s EXCEPT !.scroll_offset = s.scroll_offset + 1]
       ELSE s

\* A faulty variant, for comparison: the overlay closes where it was scrolled to
NetCloseInfoKeepsScroll(s) == [s EXCEPT !.show_info = FALSE]

NetCloseInfo(s) == [s EXCEPT !.show_info = FALSE, !.scroll_offset = 0]

NetOpenInfo(s) == [s EXCEPT !.show_info = TRUE]

NetOpenPrompt(s) ==
    [s EXCEPT !.show_prompt = TRUE,
              !.prompt_ssid =
                  IF s.selected_ssid < Len(s.wifi_list)
                  THEN s.wifi_list[s.selected_ssid + 1][1]
                  ELSE "",
              !.prompt_pass = <<>>]

\* A faulty variant, for comparison: the ssid the prompt was opened on is kept
NetCancelConnectKeepsSsid(s) ==
    [s EXCEPT !.show_prompt = FALSE, !.prompt_pass = <<>>]

\* A faulty variant, for comparison: the password typed so far is kept
NetCancelConnectKeepsPass(s) ==
    [s EXCEPT !.show_prompt = FALSE, !.prompt_ssid = ""]

\* cancel_connect, and what accept_connect does after connect_to_wifi returned
NetCancelConnect(s) ==
    [s EXCEPT !.show_prompt = FALSE, !.prompt_ssid = "", !.prompt_pass = <<>>]

\* A faulty variant, for comparison: nmcli is run whatever the password is
NetAcceptConnectAlways(s) == [st |-> s, out |-> "connect"]

\* accept_connect: connect_to_wifi returns at once on an empty password and
\* runs nmcli otherwise; the fields are cleared after it returned.
NetAcceptConnect(s) ==
    IF s.prompt_pass = <<>>
    THEN Done(NetCancelConnect(s))
    ELSE [st |-> s, out |-> "connect"]

\* A faulty variant, for comparison: the info key is not handled by the prompt and opens the overlay
NetPromptKeyInfoFallsThrough(s, e, kb) ==
    IF key_matches(e, kb.accept) THEN NetAcceptConnect(s)
    ELSE IF key_matches(e, kb.cancel) THEN Done(NetCancelConnect(s))
    ELSE IF key_matches(e, kb.info) THEN Done(NetOpenInfo(s))
    ELSE IF e.code = "backspace"
         THEN Done([s EXCEPT !.prompt_pass =
                      IF s.prompt_pass = <<>> THEN <<>>
                      ELSE SubSeq(s.prompt_pass, 1, Len(s.prompt_pass) - 1)])
    ELSE IF e.code \in CharKeys
         THEN Done([s EXCEPT !.prompt_pass = Append(s.prompt_pass, CharOf(e.code))])
    ELSE Done(s)

\* handle_key_event, if self.show_prompt { ... return; }
NetPromptKey(s, e, kb) ==
    IF key_matches(e, kb.accept) THEN NetAcceptConnect(s)
    ELSE IF key_matches(e, kb.cancel) \/ key_matches(e, kb.info)
         THEN Done(NetCancelConnect(s))
    ELSE IF e.code = "backspace"
         THEN Done([s EXCEPT !.prompt_pass =
                      IF s.prompt_pass = <<>> THEN <<>>
                      ELSE SubSeq(s.prompt_pass, 1, Len(s.prompt_pass) - 1)])
    ELSE IF e.code \in CharKeys
         THEN Done([s EXCEPT !.prompt_pass = Append(s.prompt_pass, CharOf(e.code))])
    ELSE Done(s)

\* A faulty variant, for comparison: content_up reaches the list under the overlay
NetInfoKeyMovesSelection(s, e, kb) ==
    IF key_matches(e, kb.content_up) THEN NetMoveSelectedDown(s, "release")
    ELSE IF key_matches(e, kb.content_down) THEN Done(NetMoveScrollbarDown(s))
    ELSE IF key_matches(e, kb.accept) \/ key_matches(e, kb.cancel)
            \/ key_matches(e, kb.info)
         THEN Done(NetCloseInfo(s))
    ELSE Done(s)

\* handle_key_event, if self.show_info { ... return; }
NetInfoKey(s, e, kb) ==
    IF key_matches(e, kb.content_up) THEN Done(NetMoveScrollbarUp(s))
    ELSE IF key_matches(e, kb.content_down) THEN Done(NetMoveScrollbarDown(s))
    ELSE IF key_matches(e, kb.accept) \/ key_matches(e, kb.cancel)
            \/ key_matches(e, kb.info)
         THEN Done(NetCloseInfo(s))
    ELSE Done(s)

\* handle_key_event, neither overlay shown
NetBrowseKey(s, e, kb, b) ==
    IF key_matches(e, kb.content_up) THEN NetMoveSelectedUp(s, b)
    ELSE IF key_matches(e, kb.content_down) THEN NetMoveSelectedDown(s, b)
    ELSE IF key_matches(e, kb.accept) THEN Done(NetOpenPrompt(s))
    ELSE IF key_matches(e, kb.info) THEN Done(NetOpenInfo(s))
    ELSE Done(s)

\* NetConnect::handle_key_event
NetHandleKeyEvent(s, e, kb, b) ==
    IF e.kind # "Press" THEN Done(s)
    ELSE IF s.show_prompt THEN NetPromptKey(s, e, kb)
    ELSE IF s.show_info THEN NetInfoKey(s, e, kb)
    ELSE NetBrowseKey(s, e, kb, b)

\* NetConnect::handle_events
NetHandleEvents(s, e, kb, b) ==
    IF e.type = "Key" THEN NetHandleKeyEvent(s, e, kb, b) ELSE Done(s)

\* The ssid and signal of a record of nmcli's output: ssid "" or a signal that is
\* no u8 (written -1, or above 255) makes filter_map drop the line.
\* the highest signal drawn with the low bars, and with the medium bars
SignalLowMax == 33
SignalMediumMax == 67

\* A faulty variant, for comparison: the medium bars start one signal late
FormatSignalLate(signal) ==
    IF signal <= SignalLowMax + 1 THEN "111"
    ELSE IF signal <= SignalMediumMax THEN "123"
    ELSE "357"

\* NetConnect::format_signal: three bars, each written here by its height in
\* eighths of a cell (U+2581 is 1, U+2582 is 2, U+2583 is 3, U+2585 is 5,
\* U+2587 is 7)
FormatSignal(signal) ==
    IF signal <= SignalLowMax THEN "111"
    ELSE IF signal <= SignalMediumMax THEN "123"
    ELSE "357"

ParsesAsU8(n) == n >= 0 /\ n <= U8Max

RECURSIVE FilterMapLines(_)
FilterMapLines(raw) ==
    IF raw = <<>> THEN <<>>
    ELSE LET line == raw[1]
             rest == FilterMapLines(Tail(raw))
         IN IF ParsesAsU8(line.signal) /\ line.ssid # ""
            THEN <<<<line.ssid, line.signal>>>> \o rest
            ELSE rest

\* networks.sort_by(|a, b| b.1.cmp(&a.1)): a stable sort, descending by signal
InsertBySignal(sorted, x) ==
    LET k == Cardinality({i \in 1..Len(sorted) : sorted[i][2] >= x[2]})
    IN SubSeq(sorted, 1, k) \o <<x>> \o SubSeq(sorted, k + 1, Len(sorted))

RECURSIVE SortBySignalDesc(_)
SortBySignalDesc(list) ==
    IF list = <<>> THEN <<>>
    ELSE InsertBySignal(SortBySignalDesc(SubSeq(list, 1, Len(list) - 1)),
                        list[Len(list)])

\* .filter(|(_, signal)| seen_signals.insert(*signal)): the first entry of every
\* signal value is kept
RECURSIVE FilterSeenSignals(_, _)
FilterSeenSignals(list, seen) ==
    IF list = <<>> THEN <<>>
    ELSE IF list[1][2] \in seen
         THEN FilterSeenSignals(Tail(list), seen)
         ELSE <<list[1]>> \o FilterSeenSignals(Tail(list), seen \cup {list[1][2]})

\* A faulty variant, for comparison: one entry more than asked for is taken
TakeOneMore(list, n) == SubSeq(list, 1, Min(n + 1, Len(list)))

Take(list, n) == SubSeq(list, 1, Min(n, Len(list)))

\* NetConnect::make_wifi_list on the lines nmcli printed
MakeWifiList(raw) ==
    Take(FilterSeenSignals(SortBySignalDesc(FilterMapLines(raw)), {}), WifiListCap)

\* NetConnect::get_connection_info on the devices nmcli showed ("fail": nmcli
\* could not be run or failed).  A device is [type, fields]: fields is how many
\* lines of its block carry a field of field_map.  The text of a line does not
\* matter to the pane, only its kind does.
RECURSIVE FieldLines(_)
FieldLines(n) ==
    IF n = 0 THEN <<>> ELSE <<"label", "value", "rule">> \o FieldLines(n - 1)

RECURSIVE DeviceLines(_)
DeviceLines(devices) ==
    IF devices = <<>> THEN <<>>
    ELSE LET d == devices[1]
         IN (IF d.type # "wifi" /\ d.type # "ethernet" THEN <<>>
             ELSE <<"device", "rule">> \o FieldLines(d.fields) \o <<"">>)
            \o DeviceLines(Tail(devices))

GetConnectionInfo(shown) ==
    IF shown = "fail" THEN <<"Failed to get connection info.">>
    ELSE DeviceLines(shown) \o <<"", "">>

\* NetConnect::get_connected_ssid: the active ssid, "" when nmcli failed
GetConnectedSsid(active, ok) == IF ok THEN active ELSE ""

----------------------------------------------------------------------------
(* AudioMixer *)

\* AudioMixer::new
AudioMixerNew ==
    [selected_audio |-> 0, selected_id |-> "", selected_volume |-> 0,
     audio_list |-> <<>>, started_refresh |-> FALSE]

\* .parse::<u8>().unwrap_or(0)
ParseU8OrZero(n) == IF ParsesAsU8(n) THEN n ELSE 0

\* AudioMixer::make_audio_list on the sink inputs pactl listed
MakeAudioList(listed) ==
    [i \in 1..Len(listed) |->
        <<listed[i].name, ParseU8OrZero(listed[i].volume), listed[i].id>>]

\* let (_, volume, id) = &self.audio_list[self.selected_audio]; the mirrors follow
AudioSelect(s, i) ==
    IF i < Len(s.audio_list)
    THEN Done([s EXCEPT !.selected_audio = i,
                        !.selected_volume = s.audio_list[i + 1][2],
                        !.selected_id = s.audio_list[i + 1][3]])
    ELSE Panic([s EXCEPT !.selected_audio = i])

AudioMoveSelectedDown(s, b) ==
    LET inc == AddUsize(s.selected_audio, b)
    IN IF inc.panic THEN Panic(s)
       ELSE AudioSelect(s, IF inc.v >= Len(s.audio_list) THEN 0 ELSE inc.v)

AudioMoveSelectedUp(s, b) ==
    LET number == AsI32(s.selected_audio) - 1
        sat == SaturatingSub(s.selected_audio, 1)
        last == SubUsize(Len(s.audio_list), b)
    IN IF number < 0
       THEN IF last.panic THEN Panic(s) ELSE AudioSelect(s, last.v)
       ELSE AudioSelect(s, sat)

\* A faulty variant, for comparison: the bounds themselves count as overshoot
AddVolumeAmountStrict(vol, amount, increase) ==
    LET am1 == IF vol + amount >= VolumeMax /\ increase THEN 0 ELSE amount
    IN IF vol - amount <= 0 /\ ~increase THEN 0 ELSE am1

\* add_volume: the amount that goes into the pactl command
AddVolumeAmount(vol, amount, increase) ==
    LET am1 == IF vol + amount > VolumeMax /\ increase THEN 0 ELSE amount
    IN IF vol - amount < 0 /\ ~increase THEN 0 ELSE am1

\* add_volume(&mut self, id, amount, increase): the command it runs,
\* pactl set-sink-input-volume <id> <+|-><am>%
AddVolumeCommand(s, id, amount, increase) ==
    [op |-> "set-sink-input-volume", id |-> id,
     amount |-> AddVolumeAmount(s.selected_volume, amount, increase),
     increase |-> increase, ssid |-> "", password |-> <<>>]

\* handle_key_event: let id = self.selected_id.clone(); self.add_volume(&id, 5, increase)
VolumeCommand(s, increase) == AddVolumeCommand(s, s.selected_id, VolumeStep, increase)

\* add_volume, Ok(s) if s.success(): the list is fetched again
HasSink(listed, id) == \E i \in 1..Len(listed) : listed[i].id = id

\* A faulty variant, for comparison: the filled part is rounded to the nearest cell
MakeAudioVolumeLineRounded(volume, max_width) ==
    LET bar_length == SaturatingSub(max_width, 2) % (U8Max + 1)
        filled_len == Min(Max((volume * bar_length + 50) \div 100, 0), bar_length)
    IN [bar_length |-> bar_length, filled_len |-> filled_len,
        empty_len |-> SaturatingSub(bar_length, filled_len)]

\* AudioMixer::make_audio_volume_line: the cells of the bar between its brackets
\* (max_width.saturating_sub(2) as u8), how many of them are "=" and how many "-"
MakeAudioVolumeLine(volume, max_width) ==
    LET bar_length == SaturatingSub(max_width, 2) % (U8Max + 1)
        filled_len == Min(Max((volume * bar_length) \div 100, 0), bar_length)
    IN [bar_length |-> bar_length, filled_len |-> filled_len,
        empty_len |-> SaturatingSub(bar_length, filled_len)]

\* A faulty variant, for comparison: only the volume of the selected channel is
\* read again, the rest of the list stays
AddVolumeRefetchSelected(s, listed) ==
    [s EXCEPT !.audio_list =
        [i \in 1..Len(@) |->
            IF @[i][3] = s.selected_id /\ HasSink(listed, s.selected_id)
            THEN LET j == CHOOSE j \in 1..Len(listed) : listed[j].id = s.selected_id
                 IN <<@[i][1], ParseU8OrZero(listed[j].volume), @[i][3]>>
            ELSE @[i]]]

AddVolumeRefetch(s, listed) == [s EXCEPT !.audio_list = MakeAudioList(listed)]

\* AudioMixer::handle_key_event
AudioHandleKeyEvent(s, e, kb, b) ==
    IF e.kind # "Press" THEN Done(s)
    ELSE IF key_matches(e, kb.content_up) THEN AudioMoveSelectedUp(s, b)
    ELSE IF key_matches(e, kb.content_down) THEN AudioMoveSelectedDown(s, b)
    ELSE IF key_matches(e, kb.content_left) THEN [st |-> s, out |-> "vol_down"]
    ELSE IF key_matches(e, kb.content_right) THEN [st |-> s, out |-> "vol_up"]
    ELSE Done(s)

\* AudioMixer::handle_events
AudioHandleEvents(s, e, kb, b) ==
    IF e.type = "Key" THEN AudioHandleKeyEvent(s, e, kb, b) ELSE Done(s)

\* the worker's update of the pane, under the lock
AudioRefresh(s, list) ==
    LET s1 == [s EXCEPT !.audio_list = list]
    IN IF Len(list) # 0
       THEN IF s.selected_audio < Len(list)
            THEN Done([s1 EXCEPT !.selected_volume = list[s.selected_audio + 1][2],
                                 !.selected_id = list[s.selected_audio + 1][3]])
            ELSE Panic(s1)
       ELSE Done(s1)

----------------------------------------------------------------------------
(* ContentMenu *)

HostMoveSelectedDown(sel) ==
    IF sel + 1 >= Len(Items) THEN 0 ELSE sel + 1

HostMoveSelectedUp(sel) ==
    LET number == AsI32(sel) - 1
    IN IF number < 0 THEN Len(Items) - 1 ELSE SaturatingSub(sel, 1)

\* ContentMenu::handle_key_event
HostHandleKeyEvent(sel, e, kb) ==
    IF e.kind # "Press" THEN sel
    ELSE IF key_matches(e, kb.nav_up) THEN HostMoveSelectedUp(sel)
    ELSE IF key_matches(e, kb.nav_down) THEN HostMoveSelectedDown(sel)
    ELSE sel

\* dispatch_events: the quit binding
IsQuit(e, kb) == e.type = "Key" /\ e.kind = "Press" /\ key_matches(e, kb.quit)

----------------------------------------------------------------------------
(* The shared panes: Arc<Mutex<NetConnect>>, Arc<Mutex<AudioMixer>> *)

Pane(p) == IF p = "net" THEN nc ELSE am

\* A faulty variant, for comparison: the flag is not looked at
AlreadyStartedIgnored(s) == FALSE

\* start_auto_refresh: if guard.started_refresh { return; }
AlreadyStarted(s) == s.started_refresh

\* start_auto_refresh: guard.started_refresh = true
MarkStarted(s) == [s EXCEPT !.started_refresh = TRUE]

SetPane(p, s) ==
    IF p = "net" THEN nc' = s /\ am' = am ELSE am' = s /\ nc' = nc

Selected == Items[selected_button + 1]

NoCall == [op |-> "none", id |-> "", amount |-> 0, increase |-> FALSE,
           ssid |-> "", password |-> <<>>]

\* A faulty variant, for comparison: the ssid is read from the list at accept time
ConnectCommandSelected(s) ==
    [op |-> "connect", id |-> "", amount |-> 0, increase |-> FALSE,
     ssid |-> IF s.selected_ssid < Len(s.wifi_list)
              THEN s.wifi_list[s.selected_ssid + 1][1] ELSE "",
     password |-> s.prompt_pass]

\* accept_connect -> connect_to_wifi: nmcli device wifi connect <ssid> password <password>
ConnectCommand(s) ==
    [op |-> "connect", id |-> "", amount |-> 0, increase |-> FALSE,
     ssid |-> s.prompt_ssid, password |-> s.prompt_pass]

\* add_volume: pactl list sink-inputs, after the volume was set
ListCommand == [NoCall EXCEPT !.op = "list"]

----------------------------------------------------------------------------
(* The environment a specification runs the program in *)

Net(ssid, signal) == [ssid |-> ssid, signal |-> signal]
Sink(name, volume, id) == [name |-> name, volume |-> volume, id |-> id]
Device(type, fields) == [type |-> type, fields |-> fields]

NoArg == [fn |-> "none"]

\* The state after main built the panes (make_netconnect_menu_item,
\* make_audiomixer_menu_item) and before ContentMenu::new
InitProgram(E) ==
    /\ build \in E.builds
    /\ keybinds \in E.configs
    /\ status = "running"
    /\ pc = "new"
    /\ start_i = 1
    /\ ev = NoEvent
    /\ call = NoCall
    /\ selected_button = 0
    /\ nc = NetConnectNew
    /\ am = AudioMixerNew
    /\ lock = [p \in Panes |-> "free"]
    /\ poisoned = [p \in Panes |-> FALSE]
    /\ wpc = [p \in Panes |-> "none"]
    /\ new_list = [p \in Panes |-> <<>>]
    /\ spawns = [p \in Panes |-> 0]
    /\ spc = [c \in E.callers |-> <<"idle">>]
    /\ vol_keys = 0
    /\ net_conn \in E.conn0
    /\ sinks \in E.sinks0

Init(E) == InitProgram(E) /\ arg = NoArg /\ res = NoArg

----------------------------------------------------------------------------
(* ContentMenu::new: every item's starter, in list order *)

AfterStarter ==
    /\ start_i' = start_i + 1
    /\ pc' = IF start_i + 1 > Len(Items) THEN "poll" ELSE "new"

\* (menu_item.starter)() up to the end of the locked block of start_auto_refresh
MainStarter ==
    /\ status = "running" /\ pc = "new"
    /\ LET p == Items[start_i]
       IN /\ lock[p] = "free"
          /\ IF poisoned[p]
             THEN status' = "panicked" /\ UNCHANGED <<pc, start_i, nc, am>>
             ELSE IF AlreadyStarted(Pane(p))
                  THEN AfterStarter /\ UNCHANGED <<status, nc, am>>
                  ELSE /\ SetPane(p, MarkStarted(Pane(p)))
                       /\ pc' = "spawn"
                       /\ UNCHANGED <<status, start_i>>
    /\ UNCHANGED <<arg, res, build, keybinds, ev, call, selected_button, lock, poisoned, wpc,
                   new_list, spawns, spc, vol_keys, net_conn, sinks>>

\* std::thread::spawn(move || loop { ... })
MainSpawn ==
    /\ status = "running" /\ pc = "spawn"
    /\ LET p == Items[start_i]
       IN /\ spawns' = [spawns EXCEPT ![p] = @ + 1]
          /\ wpc' = [wpc EXCEPT ![p] = "fetch"]
    /\ AfterStarter
    /\ UNCHANGED <<arg, res, build, keybinds, status, ev, call, selected_button, nc, am, lock,
                   poisoned, new_list, spc, vol_keys, net_conn, sinks>>

\* Another thread calls start_auto_refresh(this.clone()) on pane p: the locked
\* block.  spc[c] is <<"idle">>, <<"spawn", p>> or <<"returned", p>>.
CallerStart(c, p) ==
    /\ status = "running" /\ spc[c] = <<"idle">>
    /\ lock[p] = "free" /\ ~poisoned[p]
    /\ IF AlreadyStarted(Pane(p))
       THEN /\ spc' = [spc EXCEPT ![c] = <<"returned", p>>]
            /\ UNCHANGED <<nc, am>>
       ELSE /\ SetPane(p, MarkStarted(Pane(p)))
            /\ spc' = [spc EXCEPT ![c] = <<"spawn", p>>]
    /\ UNCHANGED <<arg, res, build, keybinds, status, pc, start_i, ev, call, selected_button,
                   lock, poisoned, wpc, new_list, spawns, vol_keys, net_conn, sinks>>

CallerSpawn(c) ==
    /\ status = "running" /\ spc[c][1] = "spawn"
    /\ spawns' = [spawns EXCEPT ![spc[c][2]] = @ + 1]
    /\ wpc' = [wpc EXCEPT ![spc[c][2]] = "fetch"]
    /\ spc' = [spc EXCEPT ![c] = <<"returned", spc[c][2]>>]
    /\ UNCHANGED <<arg, res, build, keybinds, status, pc, start_i, ev, call, selected_button,
                   nc, am, lock, poisoned, new_list, vol_keys, net_conn, sinks>>

----------------------------------------------------------------------------
(* The main thread: run's loop, dispatch_events, ContentMenu::handle_events *)

\* What follows the selected item's handler: ContentMenu::handle_key_event, then
\* dispatch_events' quit binding, then run draws.
AfterHandler(e) ==
    /\ selected_button' =
          IF e.type = "Key" THEN HostHandleKeyEvent(selected_button, e, keybinds)
          ELSE selected_button
    /\ IF IsQuit(e, keybinds)
       THEN status' = "exited" /\ pc' = "poll"
       ELSE status' = status /\ pc' = "draw"
    /\ ev' = NoEvent
    /\ call' = NoCall

\* The handler panicked with the pane's guard alive: the mutex is poisoned and
\* the panic unwinds the main thread, which ends the process.
MainPanics(p) ==
    /\ status' = "panicked"
    /\ poisoned' = [poisoned EXCEPT ![p] = TRUE]
    /\ UNCHANGED <<pc, ev, call, selected_button, nc, am, lock, vol_keys>>

\* The handler would append to a full password buffer (the model's bound)
PassFull(e) ==
    /\ Selected = "net" /\ nc.show_prompt /\ e.kind = "Press"
    /\ Len(nc.prompt_pass) >= MaxPass
    /\ NetHandleKeyEvent(nc, e, keybinds, build).st.prompt_pass # nc.prompt_pass
    /\ Len(NetHandleKeyEvent(nc, e, keybinds, build).st.prompt_pass) > MaxPass

IsVolKey(e) ==
    /\ Selected = "audio" /\ e.kind = "Press"
    /\ AudioHandleKeyEvent(am, e, keybinds, build).out \in {"vol_up", "vol_down"}

\* A faulty variant, for comparison: the Network pane is handed the events of
\* every item
NetEventOfAnyItem(e) ==
    LET r == NetHandleEvents(nc, e, keybinds, build)
    IN /\ r.out = "done" /\ ~poisoned["net"]
       /\ nc' = r.st
       /\ AfterHandler(e)
       /\ UNCHANGED <<am, lock, poisoned, vol_keys>>

\* event::read() gave e: event_nc.lock().unwrap().handle_events(&event)
NetEvent(e) ==
    /\ Selected = "net"
    /\ LET r == NetHandleEvents(nc, e, keybinds, build)
       IN IF poisoned["net"] \/ r.out = "panic"
          THEN MainPanics("net")
          ELSE IF r.out = "connect"
               THEN /\ lock' = [lock EXCEPT !["net"] = "main"]
                    /\ call' = ConnectCommand(nc)
                    /\ pc' = "connect"
                    /\ ev' = e
                    /\ UNCHANGED <<status, selected_button, nc, am, poisoned, vol_keys>>
               ELSE /\ nc' = r.st
                    /\ AfterHandler(e)
                    /\ UNCHANGED <<am, lock, poisoned, vol_keys>>

\* event::read() gave e: event_am.lock().unwrap().handle_events(&event)
AudioEvent(e) ==
    /\ Selected = "audio"
    /\ LET r == AudioHandleEvents(am, e, keybinds, build)
       IN IF poisoned["audio"] \/ r.out = "panic"
          THEN MainPanics("audio")
          ELSE IF r.out \in {"vol_up", "vol_down"}
               THEN /\ lock' = [lock EXCEPT !["audio"] = "main"]
                    /\ call' = VolumeCommand(am, r.out = "vol_up")
                    /\ pc' = "set_volume"
                    /\ ev' = e
                    /\ vol_keys' = vol_keys + 1
                    /\ UNCHANGED <<status, selected_button, nc, am, poisoned>>
               ELSE /\ am' = r.st
                    /\ AfterHandler(e)
                    /\ UNCHANGED <<nc, lock, poisoned, vol_keys>>

UserEvent(E) ==
    /\ status = "running" /\ pc = "poll"
    /\ lock[Selected] = "free"
    /\ \E e \in E.events :
          /\ ~PassFull(e)
          /\ IsVolKey(e) => vol_keys < MaxVolKeys
          /\ NetEvent(e) \/ AudioEvent(e)
    /\ UNCHANGED <<arg, res, build, keybinds, start_i, wpc, new_list, spawns, spc, net_conn, sinks>>

\* A faulty variant, for comparison: accept_connect also shows the network it
\* has just connected to
ConnectReturnShowsConnected ==
    /\ status = "running" /\ pc = "connect"
    /\ \E connected \in BOOLEAN :
          net_conn' = IF connected /\ call.ssid # "" THEN call.ssid ELSE net_conn
    /\ nc' = [NetCancelConnect(nc) EXCEPT !.connected_ssid = net_conn']
    /\ lock' = [lock EXCEPT !["net"] = "free"]
    /\ AfterHandler(ev)
    /\ UNCHANGED <<arg, res, build, keybinds, start_i, am, poisoned, wpc, new_list, spawns, spc,
                   vol_keys, sinks>>

\* nmcli device wifi connect returned; accept_connect clears the prompt
ConnectReturn ==
    /\ status = "running" /\ pc = "connect"
    /\ \E connected \in BOOLEAN :
          net_conn' = IF connected /\ call.ssid # "" THEN call.ssid ELSE net_conn
    /\ nc' = NetCancelConnect(nc)
    /\ lock' = [lock EXCEPT !["net"] = "free"]
    /\ AfterHandler(ev)
    /\ UNCHANGED <<arg, res, build, keybinds, start_i, am, poisoned, wpc, new_list, spawns, spc,
                   vol_keys, sinks>>

\* What PulseAudio does with  set-sink-input-volume <id> <+|-><amount>% : a
\* relative change, not capped at 100%, saturating at 0.
SetSinkInputVolume(listed, c) ==
    [i \in 1..Len(listed) |->
        IF listed[i].id = c.id
        THEN [listed[i] EXCEPT !.volume =
                 IF c.increase THEN @ + c.amount ELSE Max(0, @ - c.amount)]
        ELSE listed[i]]

\* pactl set-sink-input-volume returned: on success add_volume goes on to fetch
\* the list, otherwise it returns.
SetVolumeReturn ==
    /\ status = "running" /\ pc = "set_volume"
    /\ \E success \in BOOLEAN :
          IF success /\ HasSink(sinks, call.id)
          THEN /\ sinks' = SetSinkInputVolume(sinks, call)
               /\ call' = ListCommand
               /\ pc' = "list"
               /\ UNCHANGED <<status, ev, selected_button, lock>>
          ELSE /\ lock' = [lock EXCEPT !["audio"] = "free"]
               /\ AfterHandler(ev)
               /\ sinks' = sinks
    /\ UNCHANGED <<arg, res, build, keybinds, start_i, nc, am, poisoned, wpc, new_list, spawns,
                   spc, vol_keys, net_conn>>

\* pactl list sink-inputs returned inside add_volume (.expect panics when pactl
\* could not be run)
ListReturn(E) ==
    /\ status = "running" /\ pc = "list"
    /\ \E ran \in E.pactl_runs :
          IF ran
          THEN /\ am' = AddVolumeRefetch(am, sinks)
               /\ lock' = [lock EXCEPT !["audio"] = "free"]
               /\ AfterHandler(ev)
               /\ UNCHANGED poisoned
          ELSE /\ status' = "panicked"
               /\ poisoned' = [poisoned EXCEPT !["audio"] = TRUE]
               /\ UNCHANGED <<pc, ev, call, selected_button, am, lock>>
    /\ UNCHANGED <<arg, res, build, keybinds, start_i, nc, wpc, new_list, spawns, spc, vol_keys,
                   net_conn, sinks>>

\* terminal.draw: (menu_item.render)(area) locks the selected pane and reads it
Render ==
    /\ status = "running" /\ pc \in {"draw", "poll"}
    /\ lock[Selected] = "free"
    /\ IF poisoned[Selected]
       THEN status' = "panicked" /\ pc' = pc
       ELSE status' = status /\ pc' = "poll"
    /\ UNCHANGED <<arg, res, build, keybinds, start_i, ev, call, selected_button, nc, am, lock,
                   poisoned, wpc, new_list, spawns, spc, vol_keys, net_conn, sinks>>

----------------------------------------------------------------------------
(* The refresh workers: the loop of start_auto_refresh *)

\* nc.connected_ssid = nc.get_connected_ssid()
NetStoreConnected(s, ssid) == [s EXCEPT !.connected_ssid = ssid]

\* A faulty variant, for comparison: the refresh also brings the selection back into the new list
NetStoreListsReselect(s, info, list) ==
    [s EXCEPT !.connection_info = info, !.wifi_list = list,
              !.selected_ssid = IF @ >= Len(list) THEN 0 ELSE @]

\* nc.connection_info = nc.get_connection_info(); nc.wifi_list = new_list
NetStoreLists(s, info, list) ==
    [s EXCEPT !.connection_info = info, !.wifi_list = list]

\* let new_list = NetConnect::make_wifi_list() returned, after the sleep
\* (.expect panics, outside the lock, when nmcli could not be run)
NetFetchReturn(E) ==
    /\ status = "running" /\ wpc["net"] = "fetch"
    /\ \E ran \in E.nmcli_runs, raw \in E.scans :
          IF ran
          THEN /\ new_list' = [new_list EXCEPT !["net"] = MakeWifiList(raw)]
               /\ wpc' = [wpc EXCEPT !["net"] = "lock"]
          ELSE /\ new_list' = new_list
               /\ wpc' = [wpc EXCEPT !["net"] = "dead"]
    /\ UNCHANGED <<arg, res, build, keybinds, status, pc, start_i, ev, call, selected_button,
                   nc, am, lock, poisoned, spawns, spc, vol_keys, net_conn, sinks>>

\* A faulty variant, for comparison: the worker updates the pane without the lock
NetLockNotTaken ==
    /\ status = "running" /\ wpc["net"] = "lock"
    /\ wpc' = [wpc EXCEPT !["net"] = "get_connected_ssid"]
    /\ UNCHANGED <<arg, res, build, keybinds, status, pc, start_i, ev, call, selected_button,
                   nc, am, lock, poisoned, new_list, spawns, spc, vol_keys, net_conn, sinks>>

\* if let Ok(mut nc) = this.lock(): the worker takes the lock and calls
\* get_connected_ssid; on a poisoned mutex it goes to sleep
NetLock ==
    /\ status = "running" /\ wpc["net"] = "lock"
    /\ lock["net"] = "free"
    /\ IF poisoned["net"]
       THEN /\ wpc' = [wpc EXCEPT !["net"] = "fetch"]
            /\ new_list' = [new_list EXCEPT !["net"] = <<>>]
            /\ lock' = lock
       ELSE /\ wpc' = [wpc EXCEPT !["net"] = "get_connected_ssid"]
            /\ lock' = [lock EXCEPT !["net"] = "worker"]
            /\ new_list' = new_list
    /\ UNCHANGED <<arg, res, build, keybinds, status, pc, start_i, ev, call, selected_button,
                   nc, am, poisoned, spawns, spc, vol_keys, net_conn, sinks>>

\* get_connected_ssid returned; the worker calls get_connection_info
NetConnectedReturn ==
    /\ status = "running" /\ wpc["net"] = "get_connected_ssid"
    /\ \E ok \in BOOLEAN :
          nc' = NetStoreConnected(nc, GetConnectedSsid(net_conn, ok))
    /\ wpc' = [wpc EXCEPT !["net"] = "get_connection_info"]
    /\ UNCHANGED <<arg, res, build, keybinds, status, pc, start_i, ev, call, selected_button,
                   am, lock, poisoned, new_list, spawns, spc, vol_keys, net_conn, sinks>>

\* A faulty variant, for comparison: the worker goes to sleep with the guard alive
NetInfoReturnKeepsLock(E) ==
    /\ status = "running" /\ wpc["net"] = "get_connection_info"
    /\ \E shown \in E.shown :
          nc' = NetStoreLists(nc, GetConnectionInfo(shown), new_list["net"])
    /\ wpc' = [wpc EXCEPT !["net"] = "fetch"]
    /\ new_list' = [new_list EXCEPT !["net"] = <<>>]
    /\ UNCHANGED <<arg, res, build, keybinds, status, pc, start_i, ev, call, selected_button,
                   am, lock, poisoned, spawns, spc, vol_keys, net_conn, sinks>>

\* get_connection_info returned; the lists are stored, the guard is dropped and
\* the worker sleeps
NetInfoReturn(E) ==
    /\ status = "running" /\ wpc["net"] = "get_connection_info"
    /\ \E shown \in E.shown :
          nc' = NetStoreLists(nc, GetConnectionInfo(shown), new_list["net"])
    /\ lock' = [lock EXCEPT !["net"] = "free"]
    /\ wpc' = [wpc EXCEPT !["net"] = "fetch"]
    /\ new_list' = [new_list EXCEPT !["net"] = <<>>]
    /\ UNCHANGED <<arg, res, build, keybinds, status, pc, start_i, ev, call, selected_button,
                   am, poisoned, spawns, spc, vol_keys, net_conn, sinks>>

\* let new_list = AudioMixer::make_audio_list() returned, after the sleep
AudioFetchReturn(E) ==
    /\ status = "running" /\ wpc["audio"] = "fetch"
    /\ \E ran \in E.pactl_runs :
          IF ran
          THEN /\ new_list' = [new_list EXCEPT !["audio"] = MakeAudioList(sinks)]
               /\ wpc' = [wpc EXCEPT !["audio"] = "lock"]
          ELSE /\ new_list' = new_list
               /\ wpc' = [wpc EXCEPT !["audio"] = "dead"]
    /\ UNCHANGED <<arg, res, build, keybinds, status, pc, start_i, ev, call, selected_button,
                   nc, am, lock, poisoned, spawns, spc, vol_keys, net_conn, sinks>>

\* if let Ok(mut am) = this.lock() { ... }: the update under the lock.  An index
\* out of range panics with the guard alive: the mutex is poisoned, the worker ends.
AudioUpdate ==
    /\ status = "running" /\ wpc["audio"] = "lock"
    /\ lock["audio"] = "free"
    /\ IF poisoned["audio"]
       THEN /\ wpc' = [wpc EXCEPT !["audio"] = "fetch"]
            /\ UNCHANGED <<am, poisoned>>
       ELSE LET r == AudioRefresh(am, new_list["audio"])
            IN /\ am' = r.st
               /\ IF r.out = "panic"
                  THEN /\ poisoned' = [poisoned EXCEPT !["audio"] = TRUE]
                       /\ wpc' = [wpc EXCEPT !["audio"] = "dead"]
                  ELSE /\ poisoned' = poisoned
                       /\ wpc' = [wpc EXCEPT !["audio"] = "fetch"]
    /\ new_list' = [new_list EXCEPT !["audio"] = <<>>]
    /\ UNCHANGED <<arg, res, build, keybinds, status, pc, start_i, ev, call, selected_button,
                   nc, lock, spawns, spc, vol_keys, net_conn, sinks>>

----------------------------------------------------------------------------
(* The environment: applications that play sound come and go *)

RemoveAt(seq, i) == SubSeq(seq, 1, i - 1) \o SubSeq(seq, i + 1, Len(seq))

AppExits ==
    /\ status = "running"
    /\ \E i \in 1..Len(sinks) : sinks' = RemoveAt(sinks, i)
    /\ UNCHANGED <<arg, res, build, keybinds, status, pc, start_i, ev, call, selected_button,
                   nc, am, lock, poisoned, wpc, new_list, spawns, spc, vol_keys, net_conn>>

AppStarts(E) ==
    /\ status = "running"
    /\ \E a \in E.apps : ~HasSink(sinks, a.id) /\ sinks' = Append(sinks, a)
    /\ UNCHANGED <<arg, res, build, keybinds, status, pc, start_i, ev, call, selected_button,
                   nc, am, lock, poisoned, wpc, new_list, spawns, spc, vol_keys, net_conn>>

----------------------------------------------------------------------------
(* Specifications *)

Presses(keys) == {KeyPress(k) : k \in keys}

ScanNone == <<>>
ScanOne == <<Net("a", 80)>>
ScanThree == <<Net("b", 45), Net("a", 80), Net("c", 10)>>
ShownWifi == <<Device("loopback", 2), Device("wifi", 5)>>

\* The richest environment; the specifications below narrow it
EnvAll ==
    [builds |-> {"debug", "release"}, configs |-> Configs, callers |-> {},
     conn0 |-> {""}, sinks0 |-> {<<>>},
     scans |-> {ScanNone, ScanOne, ScanThree},
     shown |-> {"fail", ShownWifi},
     apps |-> {Sink("a", 95, "1"), Sink("b", 5, "2")},
     events |-> Presses(Keys) \cup {KeyRelease("up"), Resize},
     nmcli_runs |-> {TRUE}, pactl_runs |-> {TRUE}]

\* The whole program in a small world: one network in reach or none, one
\* application that plays sound or none, and a user who leaves the volume alone.
EnvSmall ==
    [EnvAll EXCEPT !.scans = {ScanNone, ScanOne},
                   !.shown = {"fail"},
                   !.apps = {Sink("a", 95, "1")},
                   !.events = Presses(Keys \ {"left", "right", "backspace", "esc"})
                                 \cup {KeyRelease("up"), Resize}]

Next ==
    \/ MainStarter
    \/ MainSpawn
    \/ UserEvent(EnvSmall)
    \/ ConnectReturn
    \/ Render
    \/ NetFetchReturn(EnvSmall)
    \/ NetLock
    \/ NetConnectedReturn
    \/ NetInfoReturn(EnvSmall)
    \/ AudioFetchReturn(EnvSmall)
    \/ AudioUpdate
    \/ AppExits
    \/ AppStarts(EnvSmall)

Spec == Init(EnvSmall) /\ [][Next]_vars

\* The program while the user stays on the Network pane and nothing plays sound
EnvNet ==
    [EnvAll EXCEPT !.apps = {},
                   !.configs = {CfgDistinct},
                   !.events = Presses(Keys \ {"shift+up", "shift+down", "left", "right"})
                                 \cup {KeyRelease("up"), Resize}]

NextNet ==
    \/ MainStarter
    \/ MainSpawn
    \/ UserEvent(EnvNet)
    \/ ConnectReturn
    \/ Render
    \/ NetFetchReturn(EnvNet)
    \/ NetLock
    \/ NetConnectedReturn
    \/ NetInfoReturn(EnvNet)
    \/ AudioFetchReturn(EnvNet)
    \/ AudioUpdate

SpecNet == Init(EnvNet) /\ [][NextNet]_vars

\* The program on a machine without NetworkManager (nmcli cannot be run: the
\* network worker panics in its first tick), two applications playing sound
\* that may exit, and a user who leaves the prompt and the info overlay alone.
EnvAudio ==
    [EnvAll EXCEPT !.nmcli_runs = {FALSE},
                   !.sinks0 = {<<Sink("a", 95, "1"), Sink("b", 5, "2")>>},
                   !.configs = {CfgDistinct},
                   !.events = Presses({"up", "down", "left", "right",
                                       "shift+up", "shift+down"})
                                 \cup {KeyRelease("up"), Resize}]

NextAudio ==
    \/ MainStarter
    \/ MainSpawn
    \/ UserEvent(EnvAudio)
    \/ SetVolumeReturn
    \/ ListReturn(EnvAudio)
    \/ Render
    \/ NetFetchReturn(EnvAudio)
    \/ AudioFetchReturn(EnvAudio)
    \/ AudioUpdate
    \/ AppExits

SpecAudio == Init(EnvAudio) /\ [][NextAudio]_vars

\* start_auto_refresh called by further threads while the program runs
EnvStart ==
    [EnvSmall EXCEPT !.callers = 1..NumCallers,
                     !.configs = {CfgDistinct},
                     !.builds = {"release"},
                     !.events = Presses({"up", "enter", "i", "shift+down"})]

NextStart ==
    \/ MainStarter
    \/ MainSpawn
    \/ \E c \in EnvStart.callers, p \in Panes : CallerStart(c, p)
    \/ \E c \in EnvStart.callers : CallerSpawn(c)
    \/ UserEvent(EnvStart)
    \/ Render
    \/ NetFetchReturn(EnvStart)
    \/ NetLock
    \/ NetConnectedReturn
    \/ NetInfoReturn(EnvStart)
    \/ AudioFetchReturn(EnvStart)
    \/ AudioUpdate
    \/ AppExits
    \/ AppStarts(EnvStart)

SpecStart == Init(EnvStart) /\ [][NextStart]_vars

----------------------------------------------------------------------------
(* add_volume run on its own: a pane whose selected channel has volume vol,    *)
(* PulseAudio holding that channel at vol, and the volume PulseAudio holds     *)
(* after the command add_volume ran.                                           *)

AdjustedVolume(vol, amount, increase) ==
    LET listed == <<Sink("a", vol, "1")>>
        pane == [AudioMixerNew EXCEPT !.audio_list = MakeAudioList(listed),
                                      !.selected_id = "1",
                                      !.selected_volume = vol]
    IN SetSinkInputVolume(listed, AddVolumeCommand(pane, "1", amount, increase))[1].volume

EnvIdle == [EnvSmall EXCEPT !.builds = {"debug"}, !.configs = {CfgDistinct}]

InitAdjust ==
    /\ InitProgram(EnvIdle)
    /\ arg \in [fn : {"add_volume"}, vol : 0..VolumeMax, amount : 0..U8Max,
                increase : BOOLEAN]
    /\ res = NoArg

RunAddVolume ==
    /\ arg.fn = "add_volume" /\ res = NoArg
    /\ res' = [fn |-> "add_volume",
               volume |-> AdjustedVolume(arg.vol, arg.amount, arg.increase)]
    /\ UNCHANGED <<arg, build, keybinds, status, pc, start_i, ev, call,
                   selected_button, nc, am, lock, poisoned, wpc, new_list, spawns,
                   spc, vol_keys, net_conn, sinks>>

NextAdjust == RunAddVolume

SpecAdjust == InitAdjust /\ [][NextAdjust]_vars

----------------------------------------------------------------------------
(* ContentMenu on its own: built over n items whose starter and event        *)
(* closures return Ok or Err as they please.  res.calls is the sequence of   *)
(* calls the menu made: a starter, an item's event closure, its own          *)
(* handle_key_event.  Items are numbered from 0, as selected_button is.      *)

ClosureResults == {"ok", "err"}

MenuCall(op, item, result, e, to) ==
    [op |-> op, item |-> item, result |-> result, e |-> e, to |-> to]

\* ContentMenu::move_selected_down over n items
MenuMoveSelectedDown(sel, n) ==
    IF sel + 1 >= n THEN 0 ELSE sel + 1

\* A faulty variant, for comparison: the selection stops at the first item
MenuMoveSelectedUpStops(sel, n) == SaturatingSub(sel, 1)

\* ContentMenu::move_selected_up over n items
MenuMoveSelectedUp(sel, n) ==
    LET number == AsI32(sel) - 1
    IN IF number < 0 THEN n - 1 ELSE SaturatingSub(sel, 1)

\* ContentMenu::handle_key_event: the binding applied, "none" when the event is
\* no press or matches neither
MenuBinding(e, kb) ==
    IF e.kind # "Press" THEN "none"
    ELSE IF key_matches(e, kb.nav_up) THEN "nav_up"
    ELSE IF key_matches(e, kb.nav_down) THEN "nav_down"
    ELSE "none"

MenuHandleKeyEvent(sel, n, e, kb) ==
    IF MenuBinding(e, kb) = "nav_up" THEN MenuMoveSelectedUp(sel, n)
    ELSE IF MenuBinding(e, kb) = "nav_down" THEN MenuMoveSelectedDown(sel, n)
    ELSE sel

\* A faulty variant, for comparison: a starter's error ends the construction
MenuAfterStarterAborts(m, n, r) ==
    LET calls1 == Append(m.calls, MenuCall("starter", m.next, r, NoEvent, m.next))
    IN IF r = "err"
       THEN [m EXCEPT !.calls = calls1, !.status = "failed"]
       ELSE [m EXCEPT !.calls = calls1, !.next = m.next + 1,
                      !.status = IF m.next + 1 >= n THEN "running" ELSE "new"]

\* ContentMenu::new: let _ = (menu_item.starter)(); then the next item, and
\* after the last one the menu is built with selected_button 0
MenuAfterStarter(m, n, r) ==
    LET calls1 == Append(m.calls, MenuCall("starter", m.next, r, NoEvent, m.next))
    IN [m EXCEPT !.calls = calls1, !.next = m.next + 1,
                 !.status = IF m.next + 1 >= n THEN "running" ELSE "new"]

\* ContentMenu::handle_events with the selected item's closure returning r:
\* (menu_item.event)(&event)? returns the error at once; otherwise a key event
\* goes to handle_key_event.  out is what handle_events returns.
MenuHandleEvents(m, n, e, r, kb) ==
    LET sel == m.selected_button
        calls1 == IF sel < n
                  THEN Append(m.calls, MenuCall("event", sel, r, e, sel))
                  ELSE m.calls
        to == MenuHandleKeyEvent(sel, n, e, kb)
    IN IF sel < n /\ r = "err"
       THEN [st |-> [m EXCEPT !.calls = calls1], out |-> "err"]
       ELSE IF e.type = "Key"
            THEN [st |-> [m EXCEPT !.selected_button = to,
                                   !.calls = Append(calls1,
                                       MenuCall("nav", sel, MenuBinding(e, kb), e, to))],
                  out |-> "ok"]
            ELSE [st |-> [m EXCEPT !.calls = calls1], out |-> "ok"]

\* dispatch_events and the loop of run: an Err of handle_events is returned
\* with ? by both and ends run; the quit binding breaks the loop
MenuDispatch(m, n, e, r, kb) ==
    LET h == MenuHandleEvents(m, n, e, r, kb)
        st == [h.st EXCEPT !.events = m.events + 1]
    IN IF h.out = "err" THEN [st EXCEPT !.status = "failed"]
       ELSE IF IsQuit(e, kb) THEN [st EXCEPT !.status = "exited"]
       ELSE st

MenuEvents ==
    Presses({"up", "down", "shift+up", "shift+down", "x", "ctrl+q"})
        \cup {KeyRelease("up"), Resize}

EnvMenu == [EnvIdle EXCEPT !.configs = Configs]

InitMenu ==
    /\ InitProgram(EnvMenu)
    /\ arg \in [fn : {"menu"}, n : 1..MaxItems]
    /\ res = [fn |-> "menu", status |-> "new", next |-> 0, selected_button |-> 0,
              calls |-> <<>>, events |-> 0]

MenuStarter ==
    /\ res.fn = "menu" /\ res.status = "new"
    /\ \E r \in ClosureResults : res' = MenuAfterStarter(res, arg.n, r)
    /\ UNCHANGED <<arg, build, keybinds, status, pc, start_i, ev, call,
                   selected_button, nc, am, lock, poisoned, wpc, new_list, spawns,
                   spc, vol_keys, net_conn, sinks>>

MenuEvent ==
    /\ res.fn = "menu" /\ res.status = "running" /\ res.events < MaxMenuEvents
    /\ \E e \in MenuEvents, r \in ClosureResults :
          res' = MenuDispatch(res, arg.n, e, r, keybinds)
    /\ UNCHANGED <<arg, build, keybinds, status, pc, start_i, ev, call,
                   selected_button, nc, am, lock, poisoned, wpc, new_list, spawns,
                   spc, vol_keys, net_conn, sinks>>

NextMenu == MenuStarter \/ MenuEvent

SpecMenu == InitMenu /\ [][NextMenu]_vars

----------------------------------------------------------------------------
(* The program on a machine where nmcli and pactl may fail to start *)

EnvFail ==
    [EnvAll EXCEPT !.builds = {"release"},
                   !.configs = {CfgDistinct},
                   !.scans = {ScanOne},
                   !.shown = {"fail"},
                   !.sinks0 = {<<Sink("a", 50, "1")>>},
                   !.apps = {},
                   !.events = Presses({"down", "right", "shift+down"}),
                   !.nmcli_runs = BOOLEAN,
                   !.pactl_runs = BOOLEAN]

NextFail ==
    \/ MainStarter
    \/ MainSpawn
    \/ UserEvent(EnvFail)
    \/ SetVolumeReturn
    \/ ListReturn(EnvFail)
    \/ Render
    \/ NetFetchReturn(EnvFail)
    \/ NetLock
    \/ NetConnectedReturn
    \/ NetInfoReturn(EnvFail)
    \/ AudioFetchReturn(EnvFail)
    \/ AudioUpdate

SpecFail == Init(EnvFail) /\ [][NextFail]_vars

----------------------------------------------------------------------------
(* The selection moved over a list on its own: a pane that holds a list of n  *)
(* entries with the index at a valid place, content_down and content_up       *)
(* pressed with no refresh in between.                                        *)

\* The i-th of the names the entries of such a list carry
EntryName(i) == "n" \o ToString(i)

NetPaneOver(n, index) ==
    [NetConnectNew EXCEPT !.wifi_list = [i \in 1..n |-> <<EntryName(i), U8Max - i>>],
                          !.selected_ssid = index]

AudioPaneOver(n, index) ==
    LET list == [i \in 1..n |-> <<EntryName(i), i, ToString(i)>>]
    IN [AudioMixerNew EXCEPT !.audio_list = list, !.selected_audio = index,
                             !.selected_volume = list[index + 1][2],
                             !.selected_id = list[index + 1][3]]

\* The handler of the pane on a press of the key bound to action a
PanePress(pane, s, a, kb, b) ==
    IF pane = "net" THEN NetHandleEvents(s, KeyPress(kb[a]), kb, b)
    ELSE AudioHandleEvents(s, KeyPress(kb[a]), kb, b)

PaneIndex(pane, s) == IF pane = "net" THEN s.selected_ssid ELSE s.selected_audio

EnvSelect == [EnvSmall EXCEPT !.configs = {CfgDistinct}]

InitSelect ==
    /\ InitProgram(EnvSelect)
    /\ \E pane \in Panes, n \in 1..MaxList :
          \E index \in 0..(n - 1) :
             /\ arg = [fn |-> "select", pane |-> pane, n |-> n, index |-> index]
             /\ res = [fn |-> "select", out |-> "done", downs |-> 0, ups |-> 0,
                       st |-> IF pane = "net" THEN NetPaneOver(n, index)
                              ELSE AudioPaneOver(n, index)]

SelectMoves(a) ==
    /\ arg.fn = "select" /\ res.out = "done"
    /\ res.downs + res.ups < MaxMoves
    /\ LET r == PanePress(arg.pane, res.st, a, keybinds, build)
       IN res' = [res EXCEPT !.st = r.st, !.out = r.out,
                             !.downs = IF a = "content_down" THEN @ + 1 ELSE @,
                             !.ups = IF a = "content_up" THEN @ + 1 ELSE @]
    /\ UNCHANGED <<arg, build, keybinds, status, pc, start_i, ev, call,
                   selected_button, nc, am, lock, poisoned, wpc, new_list, spawns,
                   spc, vol_keys, net_conn, sinks>>

SelectDown == SelectMoves("content_down")

SelectUp == SelectMoves("content_up")

NextSelect == SelectDown \/ SelectUp

SpecSelect == InitSelect /\ [][NextSelect]_vars

----------------------------------------------------------------------------
(* make_wifi_list on its own, on what nmcli may print: up to MaxRaw lines,     *)
(* signals that rise, fall or repeat, a line with no SSID, a line whose signal *)
(* is not a u8.                                                                *)

RawLines(len, base, step, mod, blank, unparsed) ==
    [i \in 1..len |->
        Net(IF i = blank THEN "" ELSE EntryName(i),
            IF i = unparsed THEN U8Max + 1 ELSE (base + i * step) % mod)]

InitWifi ==
    /\ InitProgram(EnvSelect)
    /\ \E len \in 0..MaxRaw, base \in {0, 90}, step \in {0, 1, 7}, mod \in {3, 101},
          blank \in 0..2, unparsed \in 0..3 :
          arg = [fn |-> "make_wifi_list",
                 raw |-> RawLines(len, base, step, mod, blank, unparsed)]
    /\ res = NoArg

RunMakeWifiList ==
    /\ arg.fn = "make_wifi_list" /\ res = NoArg
    /\ res' = [fn |-> "make_wifi_list", list |-> MakeWifiList(arg.raw)]
    /\ UNCHANGED <<arg, build, keybinds, status, pc, start_i, ev, call,
                   selected_button, nc, am, lock, poisoned, wpc, new_list, spawns,
                   spc, vol_keys, net_conn, sinks>>

NextWifi == RunMakeWifiList

SpecWifi == InitWifi /\ [][NextWifi]_vars

----------------------------------------------------------------------------
(* format_signal on its own, on every u8.                                      *)

InitSignal ==
    /\ InitProgram(EnvSelect)
    /\ arg \in [fn : {"format_signal"}, signal : 0..U8Max]
    /\ res = NoArg

RunFormatSignal ==
    /\ arg.fn = "format_signal" /\ res = NoArg
    /\ res' = [fn |-> "format_signal", bars |-> FormatSignal(arg.signal)]
    /\ UNCHANGED <<arg, build, keybinds, status, pc, start_i, ev, call,
                   selected_button, nc, am, lock, poisoned, wpc, new_list, spawns,
                   spc, vol_keys, net_conn, sinks>>

NextSignal == RunFormatSignal

SpecSignal == InitSignal /\ [][NextSignal]_vars

----------------------------------------------------------------------------
(* The program run for ever: both panes, their workers, a user who moves      *)
(* between the panes and inside them, applications that exit.  Every thread    *)
(* that can take a step takes one in the end (the main loop draws once a       *)
(* second, a worker wakes after its sleep, an external command returns), and a *)
(* thread that waits for a lock gets it when the lock is free again and again: *)
(* the main thread waits for input between two uses of a lock, a worker sleeps *)
(* three seconds between two of its own.                                       *)

EnvLive ==
    [EnvAll EXCEPT !.builds = {"release"},
                   !.configs = {CfgDistinct},
                   !.scans = {ScanOne},
                   !.shown = {"fail"},
                   !.sinks0 = {<<Sink("a", 95, "1"), Sink("b", 5, "2")>>},
                   !.events = Presses({"shift+down", "down", "i"})]

NextLive ==
    \/ MainStarter
    \/ MainSpawn
    \/ UserEvent(EnvLive)
    \/ Render
    \/ NetFetchReturn(EnvLive)
    \/ NetLock
    \/ NetConnectedReturn
    \/ NetInfoReturn(EnvLive)
    \/ AudioFetchReturn(EnvLive)
    \/ AudioUpdate
    \/ AppExits

SpecLive ==
    /\ Init(EnvLive) /\ [][NextLive]_vars
    /\ WF_vars(MainStarter) /\ WF_vars(MainSpawn) /\ SF_vars(Render)
    /\ WF_vars(NetFetchReturn(EnvLive)) /\ SF_vars(NetLock)
    /\ WF_vars(NetConnectedReturn) /\ WF_vars(NetInfoReturn(EnvLive))
    /\ WF_vars(AudioFetchReturn(EnvLive)) /\ SF_vars(AudioUpdate)

----------------------------------------------------------------------------
(* make_audio_volume_line on its own: every volume a u8 holds, in panes up to  *)
(* MaxWidth cells wide and in one so wide that the bar's length does not fit a *)
(* u8.                                                                         *)

RunMakeAudioVolumeLine ==
    /\ arg.fn = "make_audio_volume_line" /\ res = NoArg
    /\ res' = [fn |-> "make_audio_volume_line",
               bar |-> MakeAudioVolumeLine(arg.volume, arg.max_width)]
    /\ UNCHANGED <<arg, build, keybinds, status, pc, start_i, ev, call,
                   selected_button, nc, am, lock, poisoned, wpc, new_list, spawns,
                   spc, vol_keys, net_conn, sinks>>

SpecBar ==
    /\ InitProgram(EnvSelect)
    /\ res = NoArg
    /\ arg \in [fn : {"make_audio_volume_line"}, volume : 0..U8Max,
                max_width : 0..MaxWidth \cup {U8Max + 5}]
    /\ [][RunMakeAudioVolumeLine]_vars

----------------------------------------------------------------------------
(* Claims *)

\* C1: over any number of calls of start_auto_refresh on a pane, by ContentMenu::new
\* and by other threads, in sequence or at once, at most one worker is spawned:
\* a spawn happens only while none was spawned and with the flag set, and the
\* flag, once set, stays set.
C1_AtMostOneWorker ==
    /\ [](\A p \in Panes : spawns[p] <= 1)
    /\ [][\A p \in Panes :
            /\ Pane(p).started_refresh => Pane(p).started_refresh'
            /\ spawns'[p] # spawns[p] =>
                 spawns[p] = 0 /\ spawns'[p] = 1 /\ Pane(p).started_refresh]_vars

\* three calls on the Network pane have returned (the starter and two more) and
\* one worker runs
C1_Witness ==
    /\ pc = "poll"
    /\ \A c \in DOMAIN spc : spc[c] = <<"returned", "net">>
    /\ spawns["net"] = 1 /\ nc.started_refresh

\* C2: no thread holds a pane's lock while it waits for an external command
MainInCall == pc \in {"connect", "set_volume", "list"}
WorkerInCall(p) ==
    IF p = "net"
    THEN wpc[p] \in {"fetch", "get_connected_ssid", "get_connection_info"}
    ELSE wpc[p] = "fetch"
C2_NoLockAcrossCall ==
    \A p \in Panes :
        /\ ~(lock[p] = "main" /\ MainInCall)
        /\ ~(lock[p] = "worker" /\ WorkerInCall(p))

\* C3: with a non-empty network list the selected index is inside it
C3_SelectedInRange ==
    nc.wifi_list # <<>> => nc.selected_ssid < Len(nc.wifi_list)

\* C4: with a non-empty channel list the selection mirrors are those of the
\* selected channel
C4_MirrorsConsistent ==
    am.audio_list # <<>> =>
        /\ am.selected_audio < Len(am.audio_list)
        /\ am.selected_volume = am.audio_list[am.selected_audio + 1][2]
        /\ am.selected_id = am.audio_list[am.selected_audio + 1][3]

\* C5: no handler and no worker panics, no pane lock is poisoned, the process
\* does not end by a panic
C5_NoPanic ==
    /\ status # "panicked"
    /\ \A p \in Panes : ~poisoned[p]

\* C6: no volume command takes the real volume of a channel out of 0..100: the
\* real volumes stay in range, and a command that would leave it is sent with
\* a change of zero
C6_NoOvershoot ==
    /\ \A i \in 1..Len(sinks) : sinks[i].volume >= 0 /\ sinks[i].volume <= VolumeMax
    /\ pc = "set_volume" =>
         \A i \in 1..Len(sinks) :
            sinks[i].id = call.id =>
               /\ call.increase => sinks[i].volume + call.amount <= VolumeMax
               /\ ~call.increase => sinks[i].volume - call.amount >= 0

\* C7: the volume after add_volume is v when the step would leave 0..100 and
\* v + s (v - s) otherwise, the bounds 100 and 0 themselves being reached
C7_AdjustRule ==
    res.fn = "add_volume" =>
        res.volume =
            IF arg.increase
            THEN (IF arg.vol + arg.amount > 100 THEN arg.vol ELSE arg.vol + arg.amount)
            ELSE (IF arg.vol - arg.amount < 0 THEN arg.vol ELSE arg.vol - arg.amount)

\* an increase that lands on 100 exactly
C7_Witness ==
    /\ res.fn = "add_volume" /\ arg.increase /\ arg.amount > 0
    /\ arg.vol + arg.amount = 100 /\ res.volume = 100

\* C8: the password prompt and the info overlay are never shown together
C8_ModeExclusive == ~(nc.show_prompt /\ nc.show_info)

\* the prompt is open with a password typed, over a list a refresh brought,
\* after the overlay had its turn (the lines it showed are still there)
C8_Witness ==
    /\ nc.show_prompt /\ nc.prompt_pass # <<>> /\ nc.prompt_ssid # ""
    /\ Len(nc.connection_info) > ScrollWindow

\* C9: the scroll offset is at most max(0, lines - 12)
C9_ScrollClamped ==
    /\ nc.scroll_offset >= 0
    /\ nc.scroll_offset <= Max(0, Len(nc.connection_info) - 12)

\* C10: a step of a refresh tick leaves the interaction state of its pane as it
\* was: mode, prompt, scroll offset, selected index, started flag
NetInteraction ==
    <<nc.show_prompt, nc.show_info, nc.prompt_ssid, nc.prompt_pass,
      nc.scroll_offset, nc.selected_ssid, nc.started_refresh>>
AudioInteraction == <<am.selected_audio, am.started_refresh>>
C10_RefreshFrame ==
    [][/\ (wpc["net"] # "none" /\ wpc'["net"] # wpc["net"]) =>
             NetInteraction' = NetInteraction
       /\ (wpc["audio"] # "none" /\ wpc'["audio"] # wpc["audio"]) =>
             AudioInteraction' = AudioInteraction]_vars

\* the prompt was opened on "a" and a later refresh has emptied the list and
\* set the connection lines, while the Audio pane got its channel
C10_Witness ==
    /\ nc.show_prompt /\ nc.prompt_ssid = "a" /\ nc.wifi_list = <<>>
    /\ nc.connection_info # <<>>
    /\ am.audio_list # <<>> /\ am.selected_id = "1"

\* C11: no partly updated pane is seen.  The Network worker is between the first
\* and the last assignment of a tick only while it holds the pane's lock, and no
\* step of the main thread (a handler, a starter, the draw) is taken on a pane
\* whose worker holds the lock or is between those assignments.
MidTick(p) == p = "net" /\ wpc[p] \in {"get_connected_ssid", "get_connection_info"}
MainThread == <<status, pc, start_i, ev, call, selected_button, vol_keys>>
MainPane == IF pc = "new" THEN Items[start_i] ELSE Selected
C11_NoTornRead ==
    /\ [](\A p \in Panes : MidTick(p) => lock[p] = "worker")
    /\ [][MainThread' # MainThread =>
            (pc # "spawn" => lock[MainPane] # "worker" /\ ~MidTick(MainPane))]_vars

\* the worker has stored the connected ssid of this tick and not yet the lists,
\* while an event for the Network pane is waiting
C11_Witness ==
    /\ wpc["net"] = "get_connection_info" /\ lock["net"] = "worker"
    /\ nc.connected_ssid = "a" /\ nc.wifi_list = <<>> /\ new_list["net"] # <<>>
    /\ pc = "poll" /\ Selected = "net"

\* The item that was selected when the menu made its i-th call
SelectedAtCall(i) ==
    LET navs == {j \in 1..(i - 1) : res.calls[j].op = "nav"}
    IN IF navs = {} THEN 0
       ELSE res.calls[CHOOSE j \in navs : \A k \in navs : k <= j].to

IsKeyPress(e) == e.type = "Key" /\ e.kind = "Press"

\* C12: an error the selected item's handler returns is swallowed by the menu:
\* run does not end by it, and handle_key_event still gets the key event
C12_HandlerErrorSwallowed ==
    res.fn = "menu" =>
        /\ res.status # "failed"
        /\ \A i \in 1..Len(res.calls) :
              (res.calls[i].op = "event" /\ res.calls[i].result = "err"
                 /\ res.calls[i].e.type = "Key") =>
                 (i < Len(res.calls) /\ res.calls[i + 1].op = "nav")

\* C14: ContentMenu::new calls every item's starter once, in list order, whatever
\* the starters return: while it runs the calls are the starters of items
\* 0..next-1, and once the menu is built the first n calls are the starters of
\* items 0..n-1 and no later call is a starter
C14_StartersOnceInOrder ==
    res.fn = "menu" =>
        /\ res.status = "new" => Len(res.calls) = res.next /\ res.next < arg.n
        /\ res.status # "new" => Len(res.calls) >= arg.n
        /\ \A i \in 1..Len(res.calls) :
              /\ res.calls[i].op = "starter" <=> i <= arg.n
              /\ res.calls[i].op = "starter" => res.calls[i].item = i - 1

\* three items, the first starter returned an error, the other two ran after it
C14_Witness ==
    /\ res.fn = "menu" /\ arg.n = 3 /\ res.status = "running"
    /\ res.calls[1].result = "err"
    /\ res.calls[2].op = "starter" /\ res.calls[3].op = "starter"
    /\ res.calls[3].item = 2

\* C15: for every key press the menu calls the handler of the item selected
\* before the event, once, and then applies its navigation bindings to the same
\* event: an event call for a key press is made to the selected item and is
\* followed at once by the menu's handle_key_event for that event, and every
\* handle_key_event follows the event call it belongs to
C15_HandlerThenNavigation ==
    res.fn = "menu" =>
        \A i \in 1..Len(res.calls) :
           /\ (res.calls[i].op = "event" /\ IsKeyPress(res.calls[i].e)) =>
                 /\ res.calls[i].item = SelectedAtCall(i)
                 /\ i < Len(res.calls)
                 /\ res.calls[i + 1].op = "nav"
                 /\ res.calls[i + 1].e = res.calls[i].e
                 /\ res.calls[i + 1].item = res.calls[i].item
           /\ res.calls[i].op = "nav" =>
                 /\ i > 1
                 /\ res.calls[i - 1].op = "event"
                 /\ res.calls[i - 1].e = res.calls[i].e

\* C16: over n >= 1 items nav-up takes the index i to (i - 1 + n) mod n and
\* nav-down to (i + 1) mod n, the index stays in 0..n-1, and the number of items
\* does not change
C16_NavigationWraps ==
    /\ [](res.fn = "menu" =>
            /\ res.selected_button \in 0..(arg.n - 1)
            /\ \A i \in 1..Len(res.calls) :
                  res.calls[i].op = "nav" =>
                     res.calls[i].to =
                        IF res.calls[i].result = "nav_up"
                        THEN (res.calls[i].item - 1 + arg.n) % arg.n
                        ELSE IF res.calls[i].result = "nav_down"
                        THEN (res.calls[i].item + 1) % arg.n
                        ELSE res.calls[i].item)
    /\ [][arg' = arg]_vars

\* over three items: up from the first item went to the last, and down from the
\* last went to the first
C16_Witness ==
    /\ res.fn = "menu" /\ arg.n = 3
    /\ \E i, j \in 1..Len(res.calls) :
          /\ res.calls[i].op = "nav" /\ res.calls[i].result = "nav_up"
          /\ res.calls[i].item = 0 /\ res.calls[i].to = 2
          /\ res.calls[j].op = "nav" /\ res.calls[j].result = "nav_down"
          /\ res.calls[j].item = 2 /\ res.calls[j].to = 0

\* C13: a tool that cannot be started ends no thread: no worker ends at its
\* fetch (a worker that ended has poisoned its mutex, which only the update
\* under the lock does), and the main thread does not panic at the re-fetch
\* that follows a volume change
C13_AdapterFailureSwallowed ==
    /\ \A p \in Panes : wpc[p] = "dead" => poisoned[p]
    /\ ~(status = "panicked" /\ pc = "list")

\* What the Network pane's handler makes of a press of the key bound to action a
NetPress(a) == NetHandleEvents(nc, KeyPress(keybinds[a]), keybinds, build)

\* The Network pane back in the list, the prompt's fields emptied
PromptCleared(s) ==
    /\ ~s.show_prompt /\ ~s.show_info
    /\ s.prompt_pass = <<>> /\ s.prompt_ssid = ""

\* C17: from the prompt, whatever was typed, the cancel key and the info key
\* lead back to the list with the password and the prompt's ssid emptied and
\* without running nmcli; and any step that leaves the prompt without a connect
\* command leaves it so
C17_CancelLeavesPrompt ==
    /\ [](nc.show_prompt =>
            \A a \in {"cancel", "info"} :
               /\ NetPress(a).out = "done"
               /\ PromptCleared(NetPress(a).st)
               /\ NetPress(a).st = NetCancelConnect(nc))
    /\ [][(nc.show_prompt /\ ~nc'.show_prompt /\ pc = "poll") =>
             /\ PromptCleared(nc')
             /\ pc' # "connect" /\ call' = NoCall /\ net_conn' = net_conn]_vars

\* the prompt is open on "a" with a full password buffer, the cancel key is about
\* to be handled, and handling it empties the buffer
C17_Witness ==
    /\ pc = "poll" /\ Selected = "net" /\ lock["net"] = "free"
    /\ nc.show_prompt /\ nc.prompt_ssid = "a" /\ Len(nc.prompt_pass) = MaxPass
    /\ NetPress("cancel").st.prompt_pass = <<>>

\* C18: the accept key in the prompt runs one connect command, with the ssid the
\* prompt was opened on and the password typed so far; the ssid is taken from
\* the list when the prompt opens and stays as it is while the prompt is open,
\* whatever the refresh does to the list; when the command returns, with either
\* outcome, the pane is back in the list with the prompt's fields emptied
C18_AcceptConnectsCaptured ==
    /\ [](pc = "connect" =>
            /\ nc.show_prompt /\ lock["net"] = "main"
            /\ call.op = "connect"
            /\ call.ssid = nc.prompt_ssid /\ call.password = nc.prompt_pass)
    /\ [](nc.show_prompt /\ nc.prompt_pass # <<>> => NetPress("accept").out = "connect")
    /\ [][/\ (nc.show_prompt /\ nc'.show_prompt) => nc'.prompt_ssid = nc.prompt_ssid
          /\ (~nc.show_prompt /\ nc'.show_prompt) =>
                /\ nc'.prompt_pass = <<>>
                /\ nc'.prompt_ssid =
                      IF nc.selected_ssid < Len(nc.wifi_list)
                      THEN nc.wifi_list[nc.selected_ssid + 1][1] ELSE ""
          /\ (pc # "connect" /\ pc' = "connect") => pc = "poll" /\ nc' = nc
          /\ (pc = "connect" /\ pc' # "connect") =>
                PromptCleared(nc') /\ call' = NoCall /\ lock'["net"] = "free"]_vars

\* the prompt was opened on "b", a refresh then brought a list without "b", and
\* the connect command now running names "b"
C18_Witness ==
    /\ pc = "connect" /\ call.ssid = "b" /\ call.password # <<>>
    /\ nc.wifi_list = <<<<"a", 80>>>>

\* C19: the accept key with an empty password runs no command and is no error:
\* the handler ends normally with the pane back in the list and the prompt's
\* fields emptied, and no connect command ever carries an empty password
C19_EmptyPasswordNoOp ==
    /\ pc = "connect" => call.password # <<>>
    /\ (nc.show_prompt /\ nc.prompt_pass = <<>>) =>
          /\ NetPress("accept").out = "done"
          /\ PromptCleared(NetPress("accept").st)

\* the prompt is open on "a", nothing typed, the accept key about to be handled
C19_Witness ==
    /\ pc = "poll" /\ Selected = "net" /\ lock["net"] = "free"
    /\ nc.show_prompt /\ nc.prompt_ssid = "a" /\ nc.prompt_pass = <<>>
    /\ NetPress("accept").st.prompt_ssid = ""

\* C20: while the prompt or the overlay is shown no step changes the selected
\* index and none shows the other of the two; from the overlay no connect
\* command is started; and the handler leaves the index alone for every key
C20_OverlaySuppressesList ==
    /\ []((nc.show_prompt \/ nc.show_info) =>
            \A k \in Keys :
               LET r == NetHandleEvents(nc, KeyPress(k), keybinds, build)
               IN /\ r.st.selected_ssid = nc.selected_ssid
                  /\ nc.show_prompt => ~r.st.show_info
                  /\ nc.show_info => ~r.st.show_prompt /\ r.out = "done")
    /\ [][(nc.show_prompt \/ nc.show_info) =>
             /\ nc'.selected_ssid = nc.selected_ssid
             /\ nc.show_prompt => ~nc'.show_info
             /\ nc.show_info => ~nc'.show_prompt /\ pc' # "connect"]_vars

\* the overlay is shown, scrolled down by content_down, with the third network
\* still selected under it
C20_Witness ==
    /\ nc.show_info /\ nc.scroll_offset > 0
    /\ Len(nc.wifi_list) = 3 /\ nc.selected_ssid = 2

\* C21: over a list of n >= 1 entries, from a valid index, a move down takes the
\* index i to (i + 1) mod n and a move up takes it back: after d moves down and
\* u moves up, in any order, the index is (start + d - u) mod n, so n moves down
\* lead back to the start; no move panics
C21_SelectionWraps ==
    /\ [](res.fn = "select" =>
            /\ res.out = "done"
            /\ PaneIndex(arg.pane, res.st) =
                  (arg.index + res.downs + arg.n * res.ups - res.ups) % arg.n)
    /\ [][res.fn = "select" =>
            /\ res'.downs # res.downs =>
                  PaneIndex(arg.pane, res'.st) = (PaneIndex(arg.pane, res.st) + 1) % arg.n
            /\ res'.ups # res.ups =>
                  PaneIndex(arg.pane, res.st) = (PaneIndex(arg.pane, res'.st) + 1) % arg.n]_vars

\* the Network list of three entries, three moves down from index 1, back at 1
C21_Witness ==
    /\ res.fn = "select" /\ arg.pane = "net" /\ arg.n = 3 /\ arg.index = 1
    /\ res.downs = 3 /\ res.ups = 0 /\ res.st.selected_ssid = 1

\* C22: whatever nmcli printed, the list make_wifi_list returns is sorted by
\* descending signal, has at most 10 entries, and every entry has a non-empty
\* ssid and is the ssid and the parsed signal of one printed line
C22_ListSortedCappedParsed ==
    res.fn = "make_wifi_list" =>
        /\ Len(res.list) <= WifiListCap
        /\ \A i, j \in 1..Len(res.list) : i < j => res.list[i][2] >= res.list[j][2]
        /\ \A i \in 1..Len(res.list) :
              /\ res.list[i][1] # ""
              /\ \E k \in 1..Len(arg.raw) :
                    /\ ParsesAsU8(arg.raw[k].signal)
                    /\ res.list[i] = <<arg.raw[k].ssid, arg.raw[k].signal>>

\* twelve lines, more than ten of them networks with signals of their own: ten
\* are listed
C22_Witness ==
    /\ res.fn = "make_wifi_list" /\ Len(arg.raw) = MaxRaw
    /\ Cardinality({arg.raw[k].signal : k \in 1..Len(arg.raw)}) > WifiListCap
    /\ Len(res.list) = WifiListCap

\* C28: the list is the first 10 of the parsed lines in descending order of
\* signal; networks that share a signal are all kept
C28_SharedSignalsKept ==
    res.fn = "make_wifi_list" =>
        res.list = Take(SortBySignalDesc(FilterMapLines(arg.raw)), WifiListCap)

\* C23: a signal of 0..33 is drawn with the low bars, one of 34..67 with the
\* medium bars, one of 68..100 with the high bars; the three glyphs differ
C23_SignalTiers ==
    res.fn = "format_signal" =>
        /\ (arg.signal >= 0 /\ arg.signal <= 33) => res.bars = "111"
        /\ (arg.signal >= 34 /\ arg.signal <= 67) => res.bars = "123"
        /\ (arg.signal >= 68 /\ arg.signal <= 100) => res.bars = "357"

\* the first signal of the medium tier has been drawn
C23_Witness == res.fn = "format_signal" /\ arg.signal = 34 /\ res.bars = "123"

\* C24: whenever the prompt is open it names an entry: the accept key on an empty
\* list opens no prompt with an empty ssid
C24_PromptNamesAnEntry == nc.show_prompt => nc.prompt_ssid # ""

\* C25: in the prompt the press of any character key, the ones bound to accept,
\* cancel or info included, appends that character to the password and keeps
\* the prompt open
C25_EveryCharIsTyped ==
    nc.show_prompt =>
        \A k \in CharKeys :
           LET r == NetHandleEvents(nc, KeyPress(k), keybinds, build)
           IN /\ r.out = "done" /\ r.st.show_prompt
              /\ r.st.prompt_pass = Append(nc.prompt_pass, CharOf(k))

\* C26 as stated: in the overlay content_down adds 1 to scroll_offset while it is
\* below max(0, total_lines - 12), 12 being the lines the overlay shows, and
\* leaves it alone from there on
C26_ScrollsToLastLine ==
    nc.show_info =>
        NetPress("content_down").st.scroll_offset =
            IF nc.scroll_offset < Max(0, Len(nc.connection_info) - ContentHeight)
            THEN nc.scroll_offset + 1 ELSE nc.scroll_offset

\* C26, amended: in the overlay content_down adds 1 to scroll_offset while it is
\* below max(0, total_lines - 15) and leaves it alone from there on; content_up
\* takes 1 off and leaves it alone at 0; neither changes anything else; the
\* overlay shows 12 lines, so the last 3 lines of the info are never shown, and
\* every line that is not blank can be scrolled into view
C26_ScrollStopsThreeShort ==
    nc.show_info =>
        LET max_offset == Max(0, Len(nc.connection_info) - 15)
            down == NetPress("content_down")
            up == NetPress("content_up")
        IN /\ down.out = "done" /\ up.out = "done"
           /\ down.st = [nc EXCEPT !.scroll_offset = IF @ < max_offset THEN @ + 1 ELSE @]
           /\ up.st = [nc EXCEPT !.scroll_offset = IF @ > 0 THEN @ - 1 ELSE @]
           /\ \A i \in 1..Len(nc.connection_info) :
                 nc.connection_info[i] # "" => i <= max_offset + 12

\* the overlay over 20 lines, scrolled to line 5: lines 6 to 17 show, and
\* content_down is about to leave it there
C26_Witness ==
    /\ pc = "poll" /\ Selected = "net" /\ lock["net"] = "free"
    /\ nc.show_info /\ Len(nc.connection_info) = 20 /\ nc.scroll_offset = 5
    /\ NetPress("content_down").st.scroll_offset = 5
    /\ NetPress("content_up").st.scroll_offset = 4

\* C27: from the overlay the accept, cancel and info keys close it and set
\* scroll_offset to 0 and change nothing else; scroll_offset is 0 whenever the
\* overlay is not shown
C27_CloseResetsScroll ==
    /\ ~nc.show_info => nc.scroll_offset = 0
    /\ nc.show_info =>
          \A a \in {"accept", "cancel", "info"} :
             /\ NetPress(a).out = "done"
             /\ NetPress(a).st = [nc EXCEPT !.show_info = FALSE, !.scroll_offset = 0]

\* the overlay is scrolled down, the cancel key is about to be handled, and
\* handling it puts scroll_offset back to 0
C27_Witness ==
    /\ pc = "poll" /\ Selected = "net" /\ lock["net"] = "free"
    /\ nc.show_info /\ nc.scroll_offset > 0
    /\ NetPress("cancel").st.scroll_offset = 0 /\ ~NetPress("cancel").st.show_info

\* C29: a volume key leaves the pane as it is while pactl sets the volume, the
\* pane locked all along; when pactl failed the handler returns with the pane as
\* it was before the key; when it succeeded the handler returns only after the
\* whole audio_list was replaced by the channels pactl lists then, nothing else
\* of the pane changed
C29_AdjustRefetchesOrKeeps ==
    /\ [](pc \in {"set_volume", "list"} => lock["audio"] = "main")
    /\ [][/\ (pc # "set_volume" /\ pc' = "set_volume") => am' = am
          /\ pc = "set_volume" => am' = am
          /\ (pc = "list" /\ pc' = "list") => am' = am
          /\ pc' = "list" => pc \in {"set_volume", "list"}
          /\ (pc = "list" /\ pc' # "list") =>
                /\ am' = [am EXCEPT !.audio_list = MakeAudioList(sinks)]
                /\ lock'["audio"] = "free"]_vars

\* the handler has returned from a successful adjustment of "a" from 95 to 100:
\* the list is the one pactl listed then, the volume read before is still held
C29_Witness ==
    /\ pc = "draw" /\ Selected = "audio" /\ vol_keys > 0
    /\ am.audio_list = <<<<"a", 100, "1">>>> /\ am.selected_volume = 95

\* C30: connected_ssid changes only in the refresh worker, at the step where
\* get_connected_ssid returns under the lock, and is then what nmcli reports as
\* the active network at that moment ("" when the query fails); no step of the
\* connect action changes it, so after a connect it shows the old value until
\* the next refresh
C30_ConnectedOnlyByRefresh ==
    /\ [](pc = "connect" => lock["net"] = "main" /\ wpc["net"] # "get_connected_ssid")
    /\ [][/\ nc'.connected_ssid # nc.connected_ssid =>
                /\ wpc["net"] = "get_connected_ssid" /\ lock["net"] = "worker"
                /\ wpc'["net"] = "get_connection_info"
          /\ pc = "connect" => nc'.connected_ssid = nc.connected_ssid
          /\ (wpc["net"] = "get_connected_ssid" /\ wpc'["net"] # "get_connected_ssid") =>
                /\ nc'.connected_ssid \in {net_conn, ""}
                /\ net_conn' = net_conn]_vars

\* a connect to "a" went through, and the refresh after it has just stored "a"
C30_Witness ==
    /\ net_conn = "a" /\ nc.connected_ssid = "a" /\ ~nc.show_prompt
    /\ wpc["net"] = "get_connection_info"

\* C31: when the selected pane waits for a key with its list empty and the index
\* at 0, the press of the content_up or the content_down key ends normally and
\* leaves the index at 0, in the Network pane (in its list) and in the Audio pane
C31_EmptyListMovesHarmless ==
    \A a \in {"content_up", "content_down"} :
       /\ (status = "running" /\ pc = "poll" /\ Selected = "net"
              /\ nc.wifi_list = <<>> /\ nc.selected_ssid = 0
              /\ ~nc.show_prompt /\ ~nc.show_info) =>
             LET r == NetHandleEvents(nc, KeyPress(keybinds[a]), keybinds, build)
             IN r.out = "done" /\ r.st.selected_ssid = 0
       /\ (status = "running" /\ pc = "poll" /\ Selected = "audio"
              /\ am.audio_list = <<>> /\ am.selected_audio = 0) =>
             LET r == AudioHandleEvents(am, KeyPress(keybinds[a]), keybinds, build)
             IN r.out = "done" /\ r.st.selected_audio = 0

\* C32: as long as the process runs, the worker of either pane goes on with its
\* refresh ticks: again and again it has a freshly fetched list in hand, and
\* again and again it is back at the start of a tick, whichever pane is
\* selected and whatever the pane shows
C32_WorkersTickForEver ==
    \A p \in Panes :
       /\ []<>(status # "running" \/ wpc[p] = "lock")
       /\ []<>(status # "running" \/ wpc[p] = "fetch")

\* C33: the panes are independent: a pane changes only in a step of its own
\* worker, in its starter, or in a step the main thread takes for an event read
\* while that pane is selected; a step of a pane's worker leaves the other pane
\* as it is; and the main thread never holds the locks of both panes
C33_PanesIndependent ==
    /\ [](~(lock["net"] = "main" /\ lock["audio"] = "main"))
    /\ [][/\ nc' # nc =>
                \/ wpc'["net"] # wpc["net"]
                \/ pc = "new" /\ Items[start_i] = "net"
                \/ pc \in {"poll", "connect"} /\ Selected = "net"
          /\ am' # am =>
                \/ wpc'["audio"] # wpc["audio"]
                \/ pc = "new" /\ Items[start_i] = "audio"
                \/ pc \in {"poll", "set_volume", "list"} /\ Selected = "audio"
          /\ wpc'["net"] # wpc["net"] => am' = am /\ lock'["audio"] = lock["audio"]
          /\ wpc'["audio"] # wpc["audio"] => nc' = nc /\ lock'["net"] = lock["net"]
          /\ (pc = "poll" /\ pc' # "poll" /\ Selected = "net") =>
                am' = am /\ lock'["audio"] = lock["audio"]
          /\ (pc = "poll" /\ pc' # "poll" /\ Selected = "audio") =>
                nc' = nc /\ lock'["net"] = lock["net"]]_vars

\* the Audio pane is selected and has had a key, while the Network pane, its
\* overlay left open, is in the hands of its worker
C33_Witness ==
    /\ Selected = "audio" /\ pc = "draw" /\ am.audio_list # <<>>
    /\ nc.show_info /\ lock["net"] = "worker" /\ nc.wifi_list # <<>>

\* C34: a worker holds its pane's lock only inside an update, never while it
\* sleeps or fetches the list or after it ended; a lock a worker holds is free
\* again later; and as long as the process runs the main thread is again and
\* again back in its loop with the lock of the selected pane free for it to
\* take: the program never comes to a halt with a thread waiting
C34_LockAlwaysGranted ==
    /\ [](\A p \in Panes :
             wpc[p] \in {"none", "fetch", "lock", "dead"} => lock[p] # "worker")
    /\ \A p \in Panes : (lock[p] = "worker") ~> (lock[p] = "free" \/ status # "running")
    /\ []<>(status # "running" \/ (pc = "poll" /\ lock[Selected] = "free"))

\* the main thread is about to draw the Network pane while the worker holds its
\* lock
C34_Witness ==
    /\ status = "running" /\ pc = "draw" /\ Selected = "net"
    /\ lock["net"] = "worker" /\ wpc["net"] = "get_connection_info"

\* C35 as stated: for a volume of 0..100 the filled cells of the bar are the
\* integer nearest to volume / 100 * bar_width (either neighbour at a half),
\* within 0..bar_width, and filled and empty cells together are bar_width
C35_FilledIsNearest ==
    (res.fn = "make_audio_volume_line" /\ arg.volume <= 100) =>
        /\ res.bar.filled_len >= 0 /\ res.bar.filled_len <= res.bar.bar_length
        /\ res.bar.filled_len + res.bar.empty_len = res.bar.bar_length
        /\ 2 * (100 * res.bar.filled_len - arg.volume * res.bar.bar_length) <= 100
        /\ 2 * (arg.volume * res.bar.bar_length - 100 * res.bar.filled_len) <= 100

\* C35, amended: for a volume of 0..100 the filled cells of the bar are
\* volume * bar_width / 100 rounded down, within 0..bar_width; for every volume
\* a u8 holds they are that number or bar_width if that is less; filled and
\* empty cells together are bar_width
C35_FilledIsFloor ==
    res.fn = "make_audio_volume_line" =>
        /\ res.bar.filled_len >= 0 /\ res.bar.filled_len <= res.bar.bar_length
        /\ res.bar.filled_len + res.bar.empty_len = res.bar.bar_length
        /\ 100 * res.bar.filled_len <= arg.volume * res.bar.bar_length
        /\ \/ arg.volume * res.bar.bar_length < 100 * (res.bar.filled_len + 1)
           \/ arg.volume > 100 /\ res.bar.filled_len = res.bar.bar_length

\* volume 60 in a bar of 3 cells: 1.8 cells, one is filled and two are empty
C35_Witness ==
    /\ res.fn = "make_audio_volume_line" /\ arg.volume = 60
    /\ res.bar.bar_length = 3 /\ res.bar.filled_len = 1 /\ res.bar.empty_len = 2

\* C36: whenever the prompt is not shown, prompt_ssid and prompt_pass are empty:
\* nothing of a prompt is left once accept, cancel or info has closed it
C36_ClosedPromptIsEmpty ==
    ~nc.show_prompt => nc.prompt_ssid = "" /\ nc.prompt_pass = <<>>

\* a connect to "a" went through, so a prompt on "a" took a password and was
\* closed by accept: it is closed now and its fields are empty
C36_Witness ==
    /\ net_conn = "a" /\ pc = "draw" /\ ~nc.show_prompt
    /\ nc.prompt_ssid = "" /\ nc.prompt_pass = <<>>

====
